---------------------------- MODULE Spec2Model ----------------------------
(* Big-endian bit-array primitives of rust-cidr (src/src/bigendian.rs,     *)
(* instantiated for u8) and the family dispatch of IpCidr::contains        *)
(* (src/src/cidr/combined.rs).                                             *)
(*                                                                         *)
(* A slice &[u8] is a sequence of integers in 0..255; Rust's slice[i] is   *)
(* slice[i + 1] here.  Every primitive is an operator computed the way the *)
(* code computes it (masks, xor, leading_zeros, the carry loop); the       *)
(* properties read the arrays through BitAt / HostVal, which are plain     *)
(* arithmetic and use none of those operators.                             *)
EXTENDS Integers, Sequences, FiniteSets

VARIABLES slice, other, pre, start, op, ndx, bit, ret, nret, calls, trues,
          cidr, addr

vars == <<slice, other, pre, start, op, ndx, bit, ret, nret, calls, trues,
          cidr, addr>>

(***************************************************************************)
(* Bounds and input sets                                                   *)
(***************************************************************************)

\* longest array (in elements) of the one-call specifications
MaxLen == 2

\* longest array (in elements) of the wraparound specification
WrapLen == 1

\* element values given to the single-array operations
ByteVals == {0, 1, 40, 127, 128, 193, 254, 255}

\* element values given to the two-array operations
PairVals == {0, 40, 192, 193}

\* element values the wraparound runs start from
WrapVals == {0, 200, 255}

(***************************************************************************)
(* u8 arithmetic                                                           *)
(***************************************************************************)

elembits == 8

RECURSIVE Pow2(_)
Pow2(n) == IF n = 0 THEN 1 ELSE 2 * Pow2(n - 1)

\* !0 of the element type
AllOnesElem == Pow2(elembits) - 1

RECURSIVE BitAnd(_, _)
BitAnd(a, b) ==
    IF a = 0 \/ b = 0 THEN 0
    ELSE ((a % 2) * (b % 2)) + (2 * BitAnd(a \div 2, b \div 2))

RECURSIVE BitOr(_, _)
BitOr(a, b) ==
    IF a = 0 THEN b
    ELSE IF b = 0 THEN a
    ELSE (IF a % 2 = 1 \/ b % 2 = 1 THEN 1 ELSE 0)
         + (2 * BitOr(a \div 2, b \div 2))

RECURSIVE BitXor(_, _)
BitXor(a, b) ==
    IF a = 0 THEN b
    ELSE IF b = 0 THEN a
    ELSE (((a % 2) + (b % 2)) % 2) + (2 * BitXor(a \div 2, b \div 2))

BitNot(a) == AllOnesElem - a

RECURSIVE BitLength(_)
BitLength(x) == IF x = 0 THEN 0 ELSE 1 + BitLength(x \div 2)

leading_zeros(x) == elembits - BitLength(x)

\* variant: an addition that saturates instead of wrapping
overflowing_add_sat(x) ==
    [r |-> IF x = AllOnesElem THEN x ELSE x + 1, o |-> x = AllOnesElem]

\* slice[i].overflowing_add(1)
overflowing_add(x) ==
    [r |-> (x + 1) % Pow2(elembits), o |-> x + 1 >= Pow2(elembits)]

(***************************************************************************)
(* The primitives                                                          *)
(***************************************************************************)

\* variant: bit 0 taken as the least significant bit of the element
mask_le(n) == Pow2(n % elembits)

mask(n) ==
    LET bits == elembits
        bit_ndx == bits - 1 - (n % bits)
    IN  Pow2(bit_ndx)

get(s, n) ==
    LET m == mask(n)
        slice_ndx == n \div elembits
    IN  0 # BitAnd(s[slice_ndx + 1], m)

on(s, n) ==
    LET m == mask(n)
        slice_ndx == n \div elembits
    IN  [s EXCEPT ![slice_ndx + 1] = BitOr(s[slice_ndx + 1], m)]

off(s, n) ==
    LET m == mask(n)
        slice_ndx == n \div elembits
    IN  [s EXCEPT ![slice_ndx + 1] = BitAnd(s[slice_ndx + 1], BitNot(m))]

flip(s, n) ==
    LET m == mask(n)
        slice_ndx == n \div elembits
    IN  [s EXCEPT ![slice_ndx + 1] = BitXor(s[slice_ndx + 1], m)]

set(s, n, b) == IF b THEN on(s, n) ELSE off(s, n)

\* the carry loop of inc: for i in (0..slice.len()).rev(), here from element
\* i (1-based) down; overflow starts true and is the last addition's flag
RECURSIVE IncLoop(_, _)
IncLoop(s, i) ==
    IF i = 0 THEN [slice |-> s, overflow |-> TRUE]
    ELSE LET a == overflowing_add(s[i])
             s2 == [s EXCEPT ![i] = a.r]
         IN  IF ~a.o THEN [slice |-> s2, overflow |-> FALSE]
             ELSE IncLoop(s2, i - 1)

\* variant: reports the raw carry out of the array whatever the prefix
inc_raw_carry(s, prefix) ==
    LET l == IncLoop(s, Len(s))
    IN  IF prefix > 0 /\ get(s, prefix - 1) # get(l.slice, prefix - 1)
        THEN [slice |-> flip(l.slice, prefix - 1), ret |-> l.overflow]
        ELSE [slice |-> l.slice, ret |-> l.overflow]

\* variant: increments the last element only, without carrying on
inc_last_elem(s, prefix) ==
    LET a == overflowing_add(s[Len(s)])
        s2 == [s EXCEPT ![Len(s)] = a.r]
    IN  IF prefix > 0
        THEN IF get(s, prefix - 1) # get(s2, prefix - 1)
             THEN [slice |-> flip(s2, prefix - 1), ret |-> TRUE]
             ELSE [slice |-> s2, ret |-> FALSE]
        ELSE [slice |-> s2, ret |-> a.o]

\* inc(slice, prefix): the array after the call and the value returned
inc(s, prefix) ==
    LET l == IncLoop(s, Len(s))
    IN  IF prefix > 0
        THEN LET prev_bit == get(s, prefix - 1)
             IN  IF prev_bit # get(l.slice, prefix - 1)
                 THEN [slice |-> flip(l.slice, prefix - 1), ret |-> TRUE]
                 ELSE [slice |-> l.slice, ret |-> FALSE]
        ELSE [slice |-> l.slice, ret |-> l.overflow]

\* the loop of shared_prefix_len over the elements before slice_ndx, from
\* element i (0-based): the first difference's bit index, or -1 for none
RECURSIVE SplScan(_, _, _, _)
SplScan(s, o, i, slice_ndx) ==
    IF i >= slice_ndx THEN -1
    ELSE LET diff == BitXor(s[i + 1], o[i + 1])
         IN  IF 0 # diff THEN i * elembits + leading_zeros(diff)
             ELSE SplScan(s, o, i + 1, slice_ndx)

Min(a, b) == IF a < b THEN a ELSE b

\* variant: the boundary element's difference is not clipped to max_len
shared_prefix_len_noclip(s, o, max_len) ==
    IF 0 = max_len THEN 0
    ELSE LET slice_ndx == (max_len - 1) \div elembits
             early == SplScan(s, o, 0, slice_ndx)
             diff == BitXor(s[slice_ndx + 1], o[slice_ndx + 1])
         IN  IF early >= 0 THEN early
             ELSE IF 0 # diff
                  THEN slice_ndx * elembits + leading_zeros(diff)
                  ELSE max_len

shared_prefix_len(s, o, max_len) ==
    IF 0 = max_len THEN 0
    ELSE LET slice_ndx == (max_len - 1) \div elembits
             early == SplScan(s, o, 0, slice_ndx)
             diff == BitXor(s[slice_ndx + 1], o[slice_ndx + 1])
         IN  IF early >= 0 THEN early
             ELSE IF 0 # diff
                  THEN Min(max_len,
                           slice_ndx * elembits + leading_zeros(diff))
                  ELSE max_len

\* variant: the boundary mask derived from mask(ndx) instead of mask(ndx - 1)
zeroesfrom_off_by_one(s, n) ==
    LET slice_ndx == n \div elembits
    IN  IF 0 = n % elembits
        THEN [i \in 1..Len(s) |-> IF i - 1 >= slice_ndx THEN 0 ELSE s[i]]
        ELSE IF slice_ndx < Len(s)
        THEN LET m == mask(n) - 1
             IN  [i \in 1..Len(s) |->
                    IF i - 1 = slice_ndx THEN BitAnd(s[i], BitNot(m))
                    ELSE IF i - 1 > slice_ndx THEN 0
                    ELSE s[i]]
        ELSE s

zeroesfrom(s, n) ==
    LET slice_ndx == n \div elembits
    IN  IF 0 = n % elembits
        THEN [i \in 1..Len(s) |-> IF i - 1 >= slice_ndx THEN 0 ELSE s[i]]
        ELSE IF slice_ndx < Len(s)
        THEN LET m == mask(n - 1) - 1
             IN  [i \in 1..Len(s) |->
                    IF i - 1 = slice_ndx THEN BitAnd(s[i], BitNot(m))
                    ELSE IF i - 1 > slice_ndx THEN 0
                    ELSE s[i]]
        ELSE s

\* variant: the boundary element is not inspected
is_zeroesfrom_skip_boundary(s, n) ==
    LET slice_ndx == n \div elembits
    IN  IF 0 = n % elembits
        THEN \A i \in 1..Len(s) : i - 1 >= slice_ndx => s[i] = 0
        ELSE IF slice_ndx < Len(s)
        THEN \A i \in 1..Len(s) : i - 1 >= slice_ndx + 1 => s[i] = 0
        ELSE TRUE

is_zeroesfrom(s, n) ==
    LET slice_ndx == n \div elembits
    IN  IF 0 = n % elembits
        THEN \A i \in 1..Len(s) : i - 1 >= slice_ndx => s[i] = 0
        ELSE IF slice_ndx < Len(s)
        THEN LET m == mask(n - 1) - 1
             IN  /\ 0 = BitAnd(s[slice_ndx + 1], m)
                 /\ \A i \in 1..Len(s) : i - 1 >= slice_ndx + 1 => s[i] = 0
        ELSE TRUE

onesfrom(s, n) ==
    LET slice_ndx == n \div elembits
    IN  IF 0 = n % elembits
        THEN [i \in 1..Len(s) |->
                IF i - 1 >= slice_ndx THEN AllOnesElem ELSE s[i]]
        ELSE IF slice_ndx < Len(s)
        THEN LET m == mask(n - 1) - 1
             IN  [i \in 1..Len(s) |->
                    IF i - 1 = slice_ndx THEN BitOr(s[i], m)
                    ELSE IF i - 1 > slice_ndx THEN AllOnesElem
                    ELSE s[i]]
        ELSE s

is_onesfrom(s, n) ==
    LET slice_ndx == n \div elembits
    IN  IF 0 = n % elembits
        THEN \A i \in 1..Len(s) : i - 1 >= slice_ndx => s[i] = AllOnesElem
        ELSE IF slice_ndx < Len(s)
        THEN LET m == mask(n - 1) - 1
             IN  /\ BitOr(s[slice_ndx + 1], BitNot(m)) = AllOnesElem
                 /\ \A i \in 1..Len(s) :
                        i - 1 >= slice_ndx + 1 => s[i] = AllOnesElem
        ELSE TRUE

\* variant: the boundary mask derived from mask(prefix)
contains_off_by_one(s, prefix, o) ==
    LET slice_ndx == prefix \div elembits
    IN  IF \E i \in 1..slice_ndx : s[i] # o[i] THEN FALSE
        ELSE IF 0 = prefix % elembits THEN TRUE
        ELSE LET m == BitNot(mask(prefix) - 1)
             IN  0 = BitAnd(m, BitXor(s[slice_ndx + 1], o[slice_ndx + 1]))

contains(s, prefix, o) ==
    LET slice_ndx == prefix \div elembits
    IN  IF \E i \in 1..slice_ndx : s[i] # o[i] THEN FALSE
        ELSE IF 0 = prefix % elembits THEN TRUE
        ELSE LET m == BitNot(mask(prefix - 1) - 1)
             IN  0 = BitAnd(m, BitXor(s[slice_ndx + 1], o[slice_ndx + 1]))

(***************************************************************************)
(* IpCidr::contains                                                        *)
(***************************************************************************)

\* Ipv4Cidr::contains / Ipv6Cidr::contains: prefix containment of the
\* address's octets in the network's octets
Ipv4Cidr_contains(c, a) == contains(c.address, c.network_length, a)

Ipv6Cidr_contains(c, a) == contains(c.address, c.network_length, a)

\* variant: a mixed-family pair is handed to the wrapped network all the same
IpCidr_contains_cross(c, a) ==
    IF c.family = "V4"
    THEN IF a.family = "V4" THEN Ipv4Cidr_contains(c, a.octets)
         ELSE Ipv6Cidr_contains(c, a.octets)
    ELSE IF a.family = "V4" THEN Ipv4Cidr_contains(c, a.octets)
         ELSE Ipv6Cidr_contains(c, a.octets)

IpCidr_contains(c, a) ==
    IF c.family = "V4"
    THEN IF a.family = "V4" THEN Ipv4Cidr_contains(c, a.octets)
         ELSE FALSE
    ELSE IF a.family = "V4" THEN FALSE
         ELSE Ipv6Cidr_contains(c, a.octets)

(***************************************************************************)
(* Inputs                                                                  *)
(***************************************************************************)

\* the arrays of 1..n elements over the values V
Arrays(V, n) == UNION {[1..k -> V] : k \in 1..n}

TotalBits(s) == Len(s) * elembits

MaxBits == MaxLen * elembits

\* 192.168.1.0, 192.168.1.42, 192.168.2.1, 10.0.0.5
V4Addrs ==
    {<<192, 168, 1, 0>>, <<192, 168, 1, 42>>, <<192, 168, 2, 1>>,
     <<10, 0, 0, 5>>}

\* 2001:db8::1, 2001:db8:0:1::, ::1
V6Addrs ==
    {<<32, 1, 13, 184, 0, 0, 0, 0, 0, 0, 0, 0, 0, 0, 0, 1>>,
     <<32, 1, 13, 184, 0, 0, 0, 1, 0, 0, 0, 0, 0, 0, 0, 0>>,
     <<0, 0, 0, 0, 0, 0, 0, 0, 0, 0, 0, 0, 0, 0, 0, 1>>}

IpAddrs ==
    {[family |-> "V4", octets |-> a] : a \in V4Addrs}
    \cup {[family |-> "V6", octets |-> a] : a \in V6Addrs}

\* the networks: an address of either family with a length up to its width
\* and the host bits cleared
IpCidrs ==
    UNION {{[family |-> a.family,
             address |-> zeroesfrom(a.octets, n),
             network_length |-> n] : n \in 0..TotalBits(a.octets)} :
           a \in IpAddrs}

NoCidr == [family |-> "none", address |-> <<>>, network_length |-> 0]

NoAddr == [family |-> "none", octets |-> <<>>]

(***************************************************************************)
(* One call of a single-array primitive                                    *)
(***************************************************************************)

Init ==
    /\ slice \in Arrays(ByteVals, MaxLen)
    /\ pre = slice
    /\ other = <<>>
    /\ start = <<>>
    /\ op = "init"
    /\ ndx = 0
    /\ bit = FALSE
    /\ ret = FALSE
    /\ nret = 0
    /\ calls = 0
    /\ trues = 0
    /\ cidr = NoCidr
    /\ addr = NoAddr

\* a mutating call: the array before it is kept in pre
Mutate(name, n, b, s, r) ==
    /\ op = "init"
    /\ op' = name
    /\ ndx' = n
    /\ bit' = b
    /\ pre' = slice
    /\ slice' = s
    /\ ret' = r
    /\ UNCHANGED <<other, start, nret, calls, trues, cidr, addr>>

\* a read-only call returning a bool
Query(name, n, r) ==
    /\ op = "init"
    /\ op' = name
    /\ ndx' = n
    /\ ret' = r
    /\ UNCHANGED <<slice, other, pre, start, bit, nret, calls, trues,
                   cidr, addr>>

Inc(p) ==
    /\ p <= TotalBits(slice)
    /\ Mutate("inc", p, FALSE, inc(slice, p).slice, inc(slice, p).ret)

Get(i) ==
    /\ i < TotalBits(slice)
    /\ Query("get", i, get(slice, i))

Set(i, b) ==
    /\ i < TotalBits(slice)
    /\ Mutate("set", i, b, set(slice, i, b), FALSE)

On(i) ==
    /\ i < TotalBits(slice)
    /\ Mutate("on", i, FALSE, on(slice, i), FALSE)

Off(i) ==
    /\ i < TotalBits(slice)
    /\ Mutate("off", i, FALSE, off(slice, i), FALSE)

Flip(i) ==
    /\ i < TotalBits(slice)
    /\ Mutate("flip", i, FALSE, flip(slice, i), FALSE)

ZeroesFrom(n) ==
    /\ n <= TotalBits(slice)
    /\ Mutate("zeroesfrom", n, FALSE, zeroesfrom(slice, n), FALSE)

IsZeroesFrom(n) ==
    /\ n <= TotalBits(slice)
    /\ Query("is_zeroesfrom", n, is_zeroesfrom(slice, n))

OnesFrom(n) ==
    /\ n <= TotalBits(slice)
    /\ Mutate("onesfrom", n, FALSE, onesfrom(slice, n), FALSE)

IsOnesFrom(n) ==
    /\ n <= TotalBits(slice)
    /\ Query("is_onesfrom", n, is_onesfrom(slice, n))

Next ==
    \E n \in 0..MaxBits :
        \/ Inc(n)
        \/ Get(n)
        \/ \E b \in BOOLEAN : Set(n, b)
        \/ On(n)
        \/ Off(n)
        \/ Flip(n)
        \/ ZeroesFrom(n)
        \/ IsZeroesFrom(n)
        \/ OnesFrom(n)
        \/ IsOnesFrom(n)

Spec == Init /\ [][Next]_vars

(***************************************************************************)
(* One call of a two-array primitive                                       *)
(***************************************************************************)

InitPair ==
    /\ slice \in Arrays(PairVals, MaxLen)
    /\ other \in Arrays(PairVals, MaxLen)
    /\ Len(other) = Len(slice)
    /\ pre = slice
    /\ start = <<>>
    /\ op = "init"
    /\ ndx = 0
    /\ bit = FALSE
    /\ ret = FALSE
    /\ nret = 0
    /\ calls = 0
    /\ trues = 0
    /\ cidr = NoCidr
    /\ addr = NoAddr

SharedPrefixLen(max_len) ==
    /\ op = "init"
    /\ max_len <= TotalBits(slice)
    /\ op' = "shared_prefix_len"
    /\ ndx' = max_len
    /\ nret' = shared_prefix_len(slice, other, max_len)
    /\ UNCHANGED <<slice, other, pre, start, bit, ret, calls, trues,
                   cidr, addr>>

Contains(prefix) ==
    /\ prefix <= TotalBits(slice)
    /\ Query("contains", prefix, contains(slice, prefix, other))

NextPair ==
    \E n \in 0..MaxBits :
        \/ SharedPrefixLen(n)
        \/ Contains(n)

SpecPair == InitPair /\ [][NextPair]_vars

(***************************************************************************)
(* Repeated inc(slice, 0)                                                  *)
(***************************************************************************)

InitWrap ==
    /\ slice \in Arrays(WrapVals, WrapLen)
    /\ start = slice
    /\ pre = slice
    /\ other = <<>>
    /\ op = "init"
    /\ ndx = 0
    /\ bit = FALSE
    /\ ret = FALSE
    /\ nret = 0
    /\ calls = 0
    /\ trues = 0
    /\ cidr = NoCidr
    /\ addr = NoAddr

\* the next of the 2^k calls; trues counts the calls that returned true
WrapInc ==
    /\ calls < Pow2(TotalBits(slice))
    /\ op' = "inc"
    /\ pre' = slice
    /\ slice' = inc(slice, 0).slice
    /\ ret' = inc(slice, 0).ret
    /\ calls' = calls + 1
    /\ trues' = trues + (IF inc(slice, 0).ret THEN 1 ELSE 0)
    /\ UNCHANGED <<other, start, ndx, bit, nret, cidr, addr>>

NextWrap == WrapInc

SpecWrap == InitWrap /\ [][NextWrap]_vars

(***************************************************************************)
(* One call of IpCidr::contains                                            *)
(***************************************************************************)

InitCidr ==
    /\ cidr \in IpCidrs
    /\ addr \in IpAddrs
    /\ slice = <<>>
    /\ other = <<>>
    /\ pre = <<>>
    /\ start = <<>>
    /\ op = "init"
    /\ ndx = 0
    /\ bit = FALSE
    /\ ret = FALSE
    /\ nret = 0
    /\ calls = 0
    /\ trues = 0

IpCidrContains ==
    /\ op = "init"
    /\ op' = "IpCidr::contains"
    /\ ret' = IpCidr_contains(cidr, addr)
    /\ UNCHANGED <<slice, other, pre, start, ndx, bit, nret, calls, trues,
                   cidr, addr>>

NextCidr == IpCidrContains

SpecCidr == InitCidr /\ [][NextCidr]_vars

(***************************************************************************)
(* The bit array as the data model reads it                                *)
(***************************************************************************)

\* bit i of the array, 0 or 1: element i / 8, position 7 - (i % 8) counted
\* from the least significant bit
BitAt(s, i) ==
    (s[(i \div elembits) + 1] \div Pow2(elembits - 1 - (i % elembits))) % 2

BitOf(b) == IF b THEN 1 ELSE 0

\* the bits p..n-1 read as a big-endian unsigned integer
RECURSIVE BitsVal(_, _, _)
BitsVal(s, p, n) ==
    IF n <= p THEN 0 ELSE 2 * BitsVal(s, p, n - 1) + BitAt(s, n - 1)

HostVal(s, p) == BitsVal(s, p, TotalBits(s))

\* an array of u8 of the length of s
IsArrayLike(t, s) ==
    /\ DOMAIN t = DOMAIN s
    /\ \A i \in DOMAIN t : t[i] \in 0..AllOnesElem

\* the first bit index at which s and o differ, TotalBits(s) when none
FirstDiff(s, o) ==
    LET D == {i \in 0..(TotalBits(s) - 1) : BitAt(s, i) # BitAt(o, i)}
    IN  IF D = {} THEN TotalBits(s)
        ELSE CHOOSE d \in D : \A e \in D : d <= e

SamePrefix(s, o, n) == \A i \in 0..(n - 1) : BitAt(s, i) = BitAt(o, i)

OthersKept(s, t, i) ==
    \A j \in 0..(TotalBits(s) - 1) : j # i => BitAt(t, j) = BitAt(s, j)

(***************************************************************************)
(* Claims                                                                  *)
(***************************************************************************)

\* C1: after inc(slice, prefix) with prefix > 0, every bit at an index below
\* prefix has the value it had before the call.
C1_PrefixUntouched ==
    (op = "inc" /\ ndx > 0) => SamePrefix(pre, slice, ndx)

\* C2: inc(slice, prefix) returns true exactly when every bit at an index
\* >= prefix was 1 before the call; with prefix = 0 a true return means the
\* array was all ones and is all zero afterwards.
C2_OverflowReport ==
    op = "inc" =>
        /\ ret <=> \A i \in ndx..(TotalBits(pre) - 1) : BitAt(pre, i) = 1
        /\ (ndx = 0 /\ ret) =>
              \A i \in 0..(TotalBits(slice) - 1) : BitAt(slice, i) = 0

C2_Witness ==
    /\ op = "inc"
    /\ ret
    /\ ndx > elembits
    /\ ndx < TotalBits(pre)
    /\ BitAt(pre, ndx - 1) = 0

\* C3: shared_prefix_len(a, b, max_len) is min(max_len, d), d the index of
\* the first bit at which a and b differ (total_bits when equal); so it is
\* max_len for equal arrays, never above max_len, and 0 for max_len = 0.
C3_SharedPrefixLen ==
    op = "shared_prefix_len" =>
        /\ nret = Min(ndx, FirstDiff(slice, other))
        /\ nret <= ndx
        /\ shared_prefix_len(slice, slice, ndx) = ndx
        /\ shared_prefix_len(slice, other, 0) = 0

C3_Witness ==
    /\ op = "shared_prefix_len"
    /\ FirstDiff(slice, other) > ndx
    /\ FirstDiff(slice, other) < TotalBits(slice)
    /\ FirstDiff(slice, other) \div elembits = (ndx - 1) \div elembits
    /\ ndx > elembits
    /\ nret = ndx

\* C4: contains(slice, prefix, other) is true exactly when slice and other
\* agree at every bit index below prefix; so contains(a, n, a) and
\* contains(a, 0, b) are true, and a true result stays true for every
\* shorter prefix.
C4_Contains ==
    op = "contains" =>
        /\ ret <=> SamePrefix(slice, other, ndx)
        /\ contains(slice, ndx, slice)
        /\ contains(slice, 0, other)
        /\ ret => \A n2 \in 0..ndx : contains(slice, n2, other)

C4_Witness ==
    /\ op = "contains"
    /\ ret
    /\ ndx % elembits # 0
    /\ ndx > elembits
    /\ FirstDiff(slice, other) \div elembits = ndx \div elembits

C6_FillPredicates ==
    /\ op = "is_zeroesfrom" =>
          /\ ret <=> (zeroesfrom(slice, ndx) = slice)
          /\ ndx = 0 => (ret <=> \A i \in DOMAIN slice : slice[i] = 0)
    /\ op = "is_onesfrom" => (ret <=> (onesfrom(slice, ndx) = slice))
    /\ op = "zeroesfrom" => is_zeroesfrom(slice, ndx)
    /\ op = "onesfrom" => is_onesfrom(slice, ndx)

C6_Witness ==
    /\ op = "is_zeroesfrom"
    /\ ~ret
    /\ ndx % elembits # 0
    /\ ndx > elembits
    /\ \A i \in DOMAIN slice : i - 1 > ndx \div elembits => slice[i] = 0
    /\ slice[Len(slice)] = 1

\* C7: 2^k consecutive calls inc(slice, 0) on a k-bit array bring it back to
\* its starting value, and exactly one of them returns true, the one made on
\* the all-ones value.
C7_Wraparound ==
    /\ calls = Pow2(TotalBits(start)) => (slice = start /\ trues = 1)
    /\ trues <= 1
    /\ (op = "inc" /\ ret) => \A i \in DOMAIN pre : pre[i] = AllOnesElem

C7_Witness ==
    /\ calls = Pow2(TotalBits(start))
    /\ start[1] = 200
    /\ trues = 1

\* C8: set(a, i, b) (on = set true, off = set false) makes get(a, i) = b and
\* changes no other bit; flip(a, i) inverts bit i and changes no other bit;
\* get reads the bit of element i / 8 at position 7 - (i % 8).
C8_BitAccess ==
    /\ op = "get" => (ret <=> BitAt(slice, ndx) = 1)
    /\ op = "set" =>
          /\ get(slice, ndx) = bit
          /\ BitAt(slice, ndx) = BitOf(bit)
          /\ OthersKept(pre, slice, ndx)
    /\ op = "on" =>
          /\ get(slice, ndx)
          /\ BitAt(slice, ndx) = 1
          /\ OthersKept(pre, slice, ndx)
    /\ op = "off" =>
          /\ ~get(slice, ndx)
          /\ BitAt(slice, ndx) = 0
          /\ OthersKept(pre, slice, ndx)
    /\ op = "flip" =>
          /\ get(slice, ndx) = ~get(pre, ndx)
          /\ BitAt(slice, ndx) = 1 - BitAt(pre, ndx)
          /\ OthersKept(pre, slice, ndx)
    /\ op \in {"set", "on", "off", "flip"} => IsArrayLike(slice, pre)

C8_Witness ==
    /\ op = "set"
    /\ bit
    /\ ndx > elembits
    /\ BitAt(pre, ndx) = 0
    /\ BitAt(slice, ndx) = 1
    /\ pre[1] = 193

\* C9: IpCidr::contains returns false for a V4 network with a V6 address
\* and for a V6 network with a V4 address, and the wrapped network's
\* contains when the families match.
C9_MixedFamilies ==
    op = "IpCidr::contains" =>
        /\ cidr.family # addr.family => ~ret
        /\ (cidr.family = "V4" /\ addr.family = "V4") =>
              (ret <=> Ipv4Cidr_contains(cidr, addr.octets))
        /\ (cidr.family = "V6" /\ addr.family = "V6") =>
              (ret <=> Ipv6Cidr_contains(cidr, addr.octets))

C9_Witness ==
    /\ op = "IpCidr::contains"
    /\ cidr.family = "V6"
    /\ cidr.network_length = 0
    /\ addr.family = "V4"
    /\ ~ret

\* C10: after inc(slice, prefix) the bits at an index >= prefix, read as a
\* big-endian unsigned integer, are their value before the call plus 1
\* modulo 2^(total_bits - prefix); they are all zero when the call returns
\* true.
C10_HostPartPlusOne ==
    op = "inc" =>
        /\ IsArrayLike(slice, pre)
        /\ HostVal(slice, ndx) =
              (HostVal(pre, ndx) + 1) % Pow2(TotalBits(pre) - ndx)
        /\ ret => HostVal(slice, ndx) = 0

C10_Witness ==
    /\ op = "inc"
    /\ ~ret
    /\ ndx > 0
    /\ ndx < elembits
    /\ Len(pre) > 1
    /\ pre[Len(pre)] = AllOnesElem
    /\ slice[Len(pre)] = 0

=============================================================================
